---- MODULE Spec2Model ----
(***************************************************************************)
(* Lab Inventory Manager: the borrow lifecycle and the inventory status    *)
(* kept beside it.  Every view (request handler), admin-site action and    *)
(* management command that writes User, Product, Borrow, LoanHistory or    *)
(* Notification rows is one action; a request runs to completion before    *)
(* the next one starts.                                                    *)
(***************************************************************************)
EXTENDS Integers, Sequences, FiniteSets, Bags, TLC

(* ---------------------------------------------------------------- bounds *)
NumUsers == 2        \* user ids 1..NumUsers; user 1 is the create_admin account
MaxProducts == 1     \* Product rows ever created (product_id AutoField)
MaxBorrows == 2      \* Borrow rows ever created (borrow_id AutoField)
MaxQty == 2          \* largest quantity_available the model lets a product reach
MaxHistory == 1      \* LoanHistory rows ever created
MaxExtend == 1       \* loan periods an expected return date may lie ahead of today
MaxTicks == 1        \* times the clock is advanced
MaxDays == 8         \* days the day-by-day clock runs: a loan period and a day
MaxRequests == 2     \* requests in progress at the same time
MaxUsers == 3        \* User rows ever created (id AutoField), the first NumUsers at Init

(* ----------------------------------------------------- program constants *)
LoanDays == 7        \* timedelta(days=7): default loan period and extension
ReminderDays == 1    \* --reminder-days default

UserIds == 1..NumUsers
ProductIds == 1..MaxProducts
BorrowIds == 1..MaxBorrows
RequestIds == 1..MaxRequests
AllUserIds == 1..MaxUsers
Emails == 1..MaxUsers       \* email addresses, user u of Init holding address u
ShortIds == 1..MaxUsers     \* values of the five-digit User.user_id

None == << >>
Some(x) == << x >>

USER_ROLES == {"admin", "regular_user"}
PRODUCT_STATUS == {"available", "borrowed", "maintenance", "damaged"}
BORROW_STATUS == {"pending", "approved", "active", "returned", "overdue"}

VARIABLES
    users,          \* id -> User row: [role, is_active, is_staff, email, user_id]
    products,       \* product_id -> Product row: [status, quantity_available]
    borrows,        \* borrow_id -> Borrow row
    loan_history,   \* sequence of LoanHistory rows, in insertion order
    notifications,  \* bag of Notification rows: row -> how many rows hold these values
    next_product_id,
    next_borrow_id,
    next_user_id,
    today,          \* timezone.now().date(), in days
    stocked,        \* observer: the Product rows a specification starts with
    inflight,       \* request id -> a request in progress, between its reads
                    \* and the last of its writes: [op, actor, todo, ...] with
                    \* the request's own copies of the rows it read
    last            \* the last request and how it was answered: [op, level]

vars == << users, products, borrows, loan_history, notifications,
           next_product_id, next_borrow_id, next_user_id, today, stocked,
           inflight, last >>

db == << users, products, borrows, loan_history, notifications,
         next_product_id, next_borrow_id >>

\* What almost no request touches: the clock, the observer, the User id counter.
env == << today, stocked, next_user_id >>

(* ---------------------------------------------------------------- helpers *)
\* A function with key k removed.
Without(f, ks) == [k \in (DOMAIN f) \ ks |-> f[k]]

\* A function extended (or overwritten) at k.
With(f, k, v) == [x \in (DOMAIN f) \cup {k} |-> IF x = k THEN v ELSE f[x]]

RECURSIVE SelectRows(_, _)
\* The rows of sequence s whose index is not in drop, order kept.
SelectRows(s, drop) ==
    IF s = << >> THEN << >>
    ELSE LET rest == SelectRows(Tail(s), {i - 1 : i \in drop \ {1}})
         IN  IF 1 \in drop THEN rest ELSE << Head(s) >> \o rest

\* @login_required: the request carries the session of an existing, active user.
login_required(u) == u \in DOMAIN users /\ users[u].is_active

\* A test that lets every logged-in user pass.
is_logged_in(u) == login_required(u)

is_admin(u) == login_required(u) /\ users[u].role = "admin"

\* The Django admin site is open to staff accounts.
has_admin_site(u) == login_required(u) /\ users[u].is_staff

\* What the last request showed its user: the flash message's level and the view
\* that raised it (messages.success / messages.error / messages.warning, or a
\* JSON success flag), or a bare redirect to the login page, or a 404 page.
Response(op, level) == last' = [op |-> op, level |-> level]

\* A request that writes nothing and answers with an error message.
Refuse(op, level) ==
    /\ Response(op, level)
    /\ UNCHANGED << db, env, inflight >>

\* @login_required / @user_passes_test(is_admin) failed: redirect to login.
Denied == Refuse("login_redirect", "none")

\* get_object_or_404 found no row.
NotFound == Refuse("not_found", "none")

(* ------------------------------------------------------------------- Init *)
\* The accounts after create_admin and registration: user 1 is the admin.
InitialUsers ==
    [u \in UserIds |->
        [role |-> IF u = 1 THEN "admin" ELSE "regular_user",
         is_active |-> TRUE,
         is_staff |-> (u = 1),
         email |-> u,
         user_id |-> u]]

Init ==
    /\ users = InitialUsers
    /\ products = << >>
    /\ borrows = << >>
    /\ loan_history = << >>
    /\ notifications = EmptyBag
    /\ next_product_id = 1
    /\ next_borrow_id = 1
    /\ next_user_id = NumUsers + 1
    /\ today = 0
    /\ stocked = << >>
    /\ inflight = << >>
    /\ last = [op |-> "init", level |-> "none"]

(* ------------------------------------------------------- catalog (admin) *)
\* A product form that checks the status choice only.
ProductFormAnyQuantity(quantity, status) == status \in PRODUCT_STATUS

\* ProductForm: quantity_available is a PositiveIntegerField with
\* clean_quantity_available, status one of PRODUCT_STATUS.
ProductFormValid(quantity, status) ==
    quantity >= 0 /\ status \in PRODUCT_STATUS

add_item(a, quantity, status) ==
    IF ~is_admin(a) THEN Denied
    ELSE IF ~ProductFormValid(quantity, status)
    THEN Refuse("add_item", "error")
    ELSE /\ next_product_id <= MaxProducts
         /\ quantity <= MaxQty
         /\ products' = With(products, next_product_id,
                             [status |-> status, quantity_available |-> quantity])
         /\ next_product_id' = next_product_id + 1
         /\ Response("add_item", "success")
         /\ UNCHANGED << users, borrows, loan_history, notifications,
                         next_borrow_id, env, inflight >>

update_product(a, pk, quantity, status) ==
    IF ~is_admin(a) THEN Denied
    ELSE IF pk \notin DOMAIN products THEN NotFound
    ELSE IF ~ProductFormValid(quantity, status)
    THEN Refuse("update_product", "error")
    ELSE /\ quantity <= MaxQty
         /\ products' = [products EXCEPT ![pk] =
                            [status |-> status, quantity_available |-> quantity]]
         /\ Response("update_product", "success")
         /\ UNCHANGED << users, borrows, loan_history, notifications,
                         next_product_id, next_borrow_id, env, inflight >>

\* on_delete=CASCADE from Borrow.product and LoanHistory.product;
\* Notification.related_borrow is SET_NULL.
BorrowsOfProduct(pk) == {b \in DOMAIN borrows : borrows[b].product = pk}

ClearRelatedBorrow(ns, gone) ==
    LET cleared(n) == IF n.related_borrow # None /\ n.related_borrow[1] \in gone
                      THEN [n EXCEPT !.related_borrow = None] ELSE n
    IN  BagOfAll(cleared, ns)

delete_product(a, pk) ==
    IF ~is_admin(a) THEN Denied
    ELSE IF pk \notin DOMAIN products THEN NotFound
    ELSE /\ products' = Without(products, {pk})
         /\ borrows' = Without(borrows, BorrowsOfProduct(pk))
         /\ loan_history' = SelectRows(loan_history,
                {i \in DOMAIN loan_history : loan_history[i].product = pk})
         /\ notifications' = ClearRelatedBorrow(notifications, BorrowsOfProduct(pk))
         /\ Response("delete_product", "success")
         /\ UNCHANGED << users, next_product_id, next_borrow_id, env, inflight >>

update_product_status_api(a, pk, new_status) ==
    IF ~is_admin(a) THEN Denied
    ELSE IF pk \notin DOMAIN products
    THEN Refuse("update_product_status_api", "error")
    ELSE IF new_status \notin PRODUCT_STATUS
    THEN Refuse("update_product_status_api", "error")
    ELSE IF new_status = "borrowed" /\ products[pk].status # "available"
    THEN Refuse("update_product_status_api", "error")
    ELSE /\ products' = [products EXCEPT ![pk].status = new_status]
         /\ Response("update_product_status_api", "success")
         /\ UNCHANGED << users, borrows, loan_history, notifications,
                         next_product_id, next_borrow_id, env, inflight >>

(* --------------------------------------------------------- create-request *)
OPEN_STATUSES == {"pending", "approved", "active"}

\* A duplicate check that looks at pending requests only.
existing_pending_request(u, pk) ==
    \E b \in DOMAIN borrows :
        /\ borrows[b].user = u
        /\ borrows[b].product = pk
        /\ borrows[b].status = "pending"

existing_request(u, pk) ==
    \E b \in DOMAIN borrows :
        /\ borrows[b].user = u
        /\ borrows[b].product = pk
        /\ borrows[b].status \in OPEN_STATUSES

NewBorrow(u, pk) ==
    [user |-> u, product |-> pk, status |-> "pending",
     expected_return_date |-> today + LoanDays,
     actual_return_date |-> None,
     added_by |-> None]

CreateRequest(op, u, pk) ==
    IF ~login_required(u) THEN Denied
    ELSE IF pk \notin DOMAIN products THEN NotFound
    ELSE IF existing_request(u, pk) THEN Refuse(op, "error")
    ELSE IF products[pk].status # "available" THEN Refuse(op, "error")
    ELSE /\ next_borrow_id <= MaxBorrows
         /\ borrows' = With(borrows, next_borrow_id, NewBorrow(u, pk))
         /\ next_borrow_id' = next_borrow_id + 1
         /\ Response(op, "success")
         /\ UNCHANGED << users, products, loan_history, notifications,
                         next_product_id, env, inflight >>

product_detail(u, pk) == CreateRequest("product_detail", u, pk)

borrow_request(u, pk) == CreateRequest("borrow_request", u, pk)

(* -------------------------------------------------------- decide-request *)
\* approve_request: the product becomes borrowed and gives up one unit, if it has one.
ApproveProductRow(p) ==
    [p EXCEPT !.status = "borrowed",
              !.quantity_available = IF @ > 0 THEN @ - 1 ELSE @]

\* admin_pending_requests, action=approve: the product becomes borrowed.
PendingApproveProductRow(p) == [p EXCEPT !.status = "borrowed"]

ApprovedBorrowRow(b, a) == [b EXCEPT !.status = "active", !.added_by = Some(a)]

\* A rejection that does not record who decided.
RejectedBorrowRowUnsigned(b, a) == [b EXCEPT !.status = "rejected"]

RejectedBorrowRow(b, a) == [b EXCEPT !.status = "rejected", !.added_by = Some(a)]

approve_request(a, request_id) ==
    IF ~is_admin(a) THEN Denied
    ELSE IF request_id \notin DOMAIN borrows
    THEN NotFound
    ELSE LET borrow == borrows[request_id]
         IN  /\ products' = [products EXCEPT ![borrow.product] = ApproveProductRow(@)]
             /\ borrows' = [borrows EXCEPT ![request_id] = ApprovedBorrowRow(@, a)]
             /\ Response("approve_request", "success")
             /\ UNCHANGED << users, loan_history, notifications,
                             next_product_id, next_borrow_id, env, inflight >>

reject_request(a, request_id) ==
    IF ~is_admin(a) THEN Denied
    ELSE IF request_id \notin DOMAIN borrows
    THEN NotFound
    ELSE /\ borrows' = [borrows EXCEPT ![request_id] = RejectedBorrowRow(@, a)]
         /\ Response("reject_request", "success")
         /\ UNCHANGED << users, products, loan_history, notifications,
                         next_product_id, next_borrow_id, env, inflight >>

admin_pending_requests(a, request_id, action) ==
    IF ~is_admin(a) THEN Denied
    ELSE IF request_id \notin DOMAIN borrows
    THEN NotFound
    ELSE LET borrow == borrows[request_id]
         IN  /\ IF action = "approve"
                THEN /\ products' = [products EXCEPT ![borrow.product] =
                                        PendingApproveProductRow(@)]
                     /\ borrows' = [borrows EXCEPT ![request_id] =
                                        ApprovedBorrowRow(@, a)]
                ELSE /\ borrows' = [borrows EXCEPT ![request_id] =
                                        RejectedBorrowRow(@, a)]
                     /\ UNCHANGED products
             /\ Response("admin_pending_requests_" \o action, "success")
             /\ UNCHANGED << users, loan_history, notifications,
                             next_product_id, next_borrow_id, env, inflight >>

(* ------------------------------------------------------------ return-item *)
\* return_item: the product becomes available and takes one unit back.
ReturnProductRow(p) ==
    [p EXCEPT !.status = "available", !.quantity_available = @ + 1]

ReturnedBorrowRow(b) ==
    [b EXCEPT !.status = "returned", !.actual_return_date = Some(today)]

LoanHistoryRow(b) ==
    [user |-> b.user, product |-> b.product, status |-> "returned"]

\* A look-up by borrow_id alone.
AnyBorrow(u, borrow_id) == borrow_id \in DOMAIN borrows

\* get_object_or_404(Borrow, borrow_id=borrow_id, user=request.user)
OwnBorrow(u, borrow_id) ==
    borrow_id \in DOMAIN borrows /\ borrows[borrow_id].user = u

return_item(u, borrow_id) ==
    IF ~login_required(u) THEN Denied
    ELSE IF ~OwnBorrow(u, borrow_id) THEN NotFound
    ELSE LET borrow == borrows[borrow_id]
         IN  /\ products[borrow.product].quantity_available < MaxQty
             /\ Len(loan_history) < MaxHistory
             /\ borrows' = [borrows EXCEPT ![borrow_id] = ReturnedBorrowRow(@)]
             /\ products' = [products EXCEPT ![borrow.product] = ReturnProductRow(@)]
             /\ loan_history' = Append(loan_history, LoanHistoryRow(borrow))
             /\ Response("return_item", "success")
             /\ UNCHANGED << users, notifications, next_product_id,
                             next_borrow_id, env, inflight >>

(* --------------------------------------------------------- extend-request *)
\* An extension by two weeks.
ExtendedBorrowRowTwoWeeks(b) ==
    [b EXCEPT !.expected_return_date = @ + 2 * LoanDays]

ExtendedBorrowRow(b) ==
    [b EXCEPT !.expected_return_date = @ + LoanDays]

extend_request(u, borrow_id) ==
    IF ~login_required(u) THEN Denied
    ELSE IF ~OwnBorrow(u, borrow_id) THEN NotFound
    ELSE IF borrows[borrow_id].status # "active"
    THEN Refuse("extend_request", "error")
    ELSE /\ borrows[borrow_id].expected_return_date < today + MaxExtend * LoanDays
         /\ borrows' = [borrows EXCEPT ![borrow_id] = ExtendedBorrowRow(@)]
         /\ Response("extend_request", "success")
         /\ UNCHANGED << users, products, loan_history, notifications,
                         next_product_id, next_borrow_id, env, inflight >>

(* ------------------------------------------ admin returns (views, admin site) *)
CanMarkReturned(b) == b.status \in {"active", "overdue"}

CanMarkActive(b) == b.status = "returned"

\* mark_returned / mark_as_returned: the product becomes available.
MarkReturnedProductRow(p) == [p EXCEPT !.status = "available"]

\* mark_active / mark_as_active: the product becomes borrowed.
MarkActiveProductRow(p) == [p EXCEPT !.status = "borrowed"]

ReactivatedBorrowRow(b) ==
    [b EXCEPT !.status = "active", !.actual_return_date = None]

admin_manage_returns(a, borrow_id, action) ==
    IF ~is_admin(a) THEN Denied
    ELSE IF borrow_id \notin DOMAIN borrows
    THEN Refuse("admin_manage_returns_" \o action, "error")
    ELSE LET borrow == borrows[borrow_id]
         IN  IF action = "mark_returned"
             THEN IF CanMarkReturned(borrow)
                  THEN /\ borrows' = [borrows EXCEPT ![borrow_id] = ReturnedBorrowRow(@)]
                       /\ products' = [products EXCEPT ![borrow.product] =
                                          MarkReturnedProductRow(@)]
                       /\ Response("admin_manage_returns_mark_returned", "success")
                       /\ UNCHANGED << users, loan_history, notifications,
                                       next_product_id, next_borrow_id, env, inflight >>
                  ELSE Refuse("admin_manage_returns_mark_returned", "error")
             ELSE IF CanMarkActive(borrow)
                  THEN /\ borrows' = [borrows EXCEPT ![borrow_id] = ReactivatedBorrowRow(@)]
                       /\ products' = [products EXCEPT ![borrow.product] =
                                          MarkActiveProductRow(@)]
                       /\ Response("admin_manage_returns_mark_active", "success")
                       /\ UNCHANGED << users, loan_history, notifications,
                                       next_product_id, next_borrow_id, env, inflight >>
                  ELSE Refuse("admin_manage_returns_mark_active", "error")

\* BorrowAdmin actions run over the selected rows (the queryset).
mark_as_returned(a, queryset) ==
    IF ~has_admin_site(a) THEN Denied
    ELSE LET hit == {b \in queryset : CanMarkReturned(borrows[b])}
             prods == {borrows[b].product : b \in hit}
         IN  /\ queryset \subseteq DOMAIN borrows
             /\ borrows' = [b \in DOMAIN borrows |->
                              IF b \in hit THEN ReturnedBorrowRow(borrows[b])
                              ELSE borrows[b]]
             /\ products' = [p \in DOMAIN products |->
                              IF p \in prods THEN MarkReturnedProductRow(products[p])
                              ELSE products[p]]
             /\ Response("mark_as_returned", IF hit # {} THEN "success" ELSE "warning")
             /\ UNCHANGED << users, loan_history, notifications,
                             next_product_id, next_borrow_id, env, inflight >>

mark_as_active(a, queryset) ==
    IF ~has_admin_site(a) THEN Denied
    ELSE LET hit == {b \in queryset : CanMarkActive(borrows[b])}
             prods == {borrows[b].product : b \in hit}
         IN  /\ queryset \subseteq DOMAIN borrows
             /\ borrows' = [b \in DOMAIN borrows |->
                              IF b \in hit THEN ReactivatedBorrowRow(borrows[b])
                              ELSE borrows[b]]
             /\ products' = [p \in DOMAIN products |->
                              IF p \in prods THEN MarkActiveProductRow(products[p])
                              ELSE products[p]]
             /\ Response("mark_as_active", IF hit # {} THEN "success" ELSE "warning")
             /\ UNCHANGED << users, loan_history, notifications,
                             next_product_id, next_borrow_id, env, inflight >>

(* ------------------------------------------------------------ delete-user *)
BorrowsOfUser(u) == {b \in DOMAIN borrows : borrows[b].user = u}

\* Everything user u's deletion takes with it or nulls out.
DeleteUserRows(u) ==
    /\ users' = Without(users, {u})
    /\ borrows' = [b \in (DOMAIN borrows) \ BorrowsOfUser(u) |->
                     IF borrows[b].added_by = Some(u)
                     THEN [borrows[b] EXCEPT !.added_by = None] ELSE borrows[b]]
    /\ loan_history' = SelectRows(loan_history,
            {i \in DOMAIN loan_history : loan_history[i].user = u})
    /\ LET kept == {m \in DOMAIN notifications : m.recipient_user # u}
           cleared(n) == IF n.related_user = Some(u)
                         THEN [n EXCEPT !.related_user = None] ELSE n
       IN  notifications' =
               BagOfAll(cleared,
                        ClearRelatedBorrow([m \in kept |-> notifications[m]],
                                           BorrowsOfUser(u)))

\* get_object_or_404(User, user_id=user_id): the rows with that short id.
UsersWithShortId(user_id) == {u \in DOMAIN users : users[u].user_id = user_id}

delete_user(a, user_id) ==
    IF ~is_admin(a) THEN Denied
    ELSE IF UsersWithShortId(user_id) = {} THEN NotFound
    ELSE LET user == CHOOSE u \in UsersWithShortId(user_id) : TRUE
         IN
         IF user = a THEN Refuse("delete_user", "error")
    ELSE /\ DeleteUserRows(user)
         /\ Response("delete_user", "success")
         /\ UNCHANGED << products, next_product_id, next_borrow_id, env, inflight >>

(* ------------------------------------------------------- user accounts *)
active_admins == {u \in DOMAIN users : users[u].role = "admin" /\ users[u].is_active}

\* UserRegistrationForm.clean_email
email_in_use(email) == \E u \in DOMAIN users : users[u].email = email

\* generate_unique_user_id draws until the value is held by no User.
user_id_in_use(user_id) == \E u \in DOMAIN users : users[u].user_id = user_id

UserRow(role, is_active, email, user_id) ==
    [role |-> role, is_active |-> is_active, is_staff |-> FALSE,
     email |-> email, user_id |-> user_id]

RegistrationNotificationRow(admin, user) ==
    [recipient_user |-> admin, related_user |-> Some(user),
     related_borrow |-> None, notification_type |-> "user_registration",
     priority |-> "medium", created_at |-> today]

\* user_register keeping the is_active default of Django's User (True).
user_register_active(email, role, user_id) ==
    IF email_in_use(email) THEN Refuse("user_register", "error")
    ELSE /\ next_user_id <= MaxUsers
         /\ ~user_id_in_use(user_id)
         /\ users' = With(users, next_user_id, UserRow(role, TRUE, email, user_id))
         /\ next_user_id' = next_user_id + 1
         /\ notifications' = notifications (+) SetToBag(
                {RegistrationNotificationRow(admin, next_user_id) : admin \in active_admins})
         /\ Response("user_register", "success")
         /\ UNCHANGED << products, borrows, loan_history, next_product_id,
                         next_borrow_id, today, stocked, inflight >>

user_register(email, role, user_id) ==
    IF email_in_use(email) THEN Refuse("user_register", "error")
    ELSE /\ next_user_id <= MaxUsers
         /\ ~user_id_in_use(user_id)
         /\ users' = With(users, next_user_id, UserRow(role, FALSE, email, user_id))
         /\ next_user_id' = next_user_id + 1
         /\ notifications' = notifications (+) SetToBag(
                {RegistrationNotificationRow(admin, next_user_id) : admin \in active_admins})
         /\ Response("user_register", "success")
         /\ UNCHANGED << products, borrows, loan_history, next_product_id,
                         next_borrow_id, today, stocked, inflight >>

add_user(a, email, role, user_id) ==
    IF ~is_admin(a) THEN Denied
    ELSE IF email_in_use(email) THEN Refuse("add_user", "error")
    ELSE /\ next_user_id <= MaxUsers
         /\ ~user_id_in_use(user_id)
         /\ users' = With(users, next_user_id, UserRow(role, TRUE, email, user_id))
         /\ next_user_id' = next_user_id + 1
         /\ Response("add_user", "success")
         /\ UNCHANGED << products, borrows, loan_history, notifications,
                         next_product_id, next_borrow_id, today, stocked, inflight >>

\* A request that writes the User table only.
OnlyUsersChange ==
    UNCHANGED << products, borrows, loan_history, notifications,
                 next_product_id, next_borrow_id, env, inflight >>

activate_user(a, user_id) ==
    IF ~is_admin(a) THEN Denied
    ELSE IF UsersWithShortId(user_id) = {} THEN NotFound
    ELSE LET user == CHOOSE u \in UsersWithShortId(user_id) : TRUE
         IN  /\ users' = [users EXCEPT ![user].is_active = TRUE]
             /\ Response("activate_user", "success")
             /\ OnlyUsersChange

\* deactivate_user without the comparison with request.user.
deactivate_any_user(a, user_id) ==
    IF ~is_admin(a) THEN Denied
    ELSE IF UsersWithShortId(user_id) = {} THEN NotFound
    ELSE LET user == CHOOSE u \in UsersWithShortId(user_id) : TRUE
         IN  /\ users' = [users EXCEPT ![user].is_active = FALSE]
             /\ Response("deactivate_user", "success")
             /\ OnlyUsersChange

deactivate_user(a, user_id) ==
    IF ~is_admin(a) THEN Denied
    ELSE IF UsersWithShortId(user_id) = {} THEN NotFound
    ELSE LET user == CHOOSE u \in UsersWithShortId(user_id) : TRUE
         IN  IF user # a
             THEN /\ users' = [users EXCEPT ![user].is_active = FALSE]
                  /\ Response("deactivate_user", "success")
                  /\ OnlyUsersChange
             ELSE Refuse("deactivate_user", "error")

\* admin_pending_users looks the User up by primary key.
admin_pending_users(a, pk, action) ==
    IF ~is_admin(a) THEN Denied
    ELSE IF pk \notin DOMAIN users
    THEN Refuse("admin_pending_users_" \o action, "error")
    ELSE IF action = "approve"
    THEN /\ users' = [users EXCEPT ![pk].is_active = TRUE]
         /\ Response("admin_pending_users_approve", "success")
         /\ OnlyUsersChange
    ELSE /\ DeleteUserRows(pk)
         /\ Response("admin_pending_users_reject", "success")
         /\ UNCHANGED << products, next_product_id, next_borrow_id, env, inflight >>

\* user_profile POST: UserProfileForm on the user's own row; a ModelForm
\* refuses an email another User holds.
user_profile(u, email) ==
    IF ~login_required(u) THEN Denied
    ELSE IF \E o \in DOMAIN users : o # u /\ users[o].email = email
    THEN Refuse("user_profile", "error")
    ELSE /\ users' = [users EXCEPT ![u].email = email]
         /\ Response("user_profile", "success")
         /\ OnlyUsersChange

(* ------------------------------------------------- send_notifications job *)
items_for_reminder ==
    {b \in DOMAIN borrows : /\ borrows[b].status = "active"
                            /\ borrows[b].expected_return_date = today + ReminderDays}

overdue_items ==
    {b \in DOMAIN borrows : /\ borrows[b].status = "active"
                            /\ borrows[b].expected_return_date < today}

\* A job that does not look for the notifications it has sent.
NeverNotified(b, type) == FALSE

AlreadyNotified(b, type) ==
    \E n \in DOMAIN notifications :
        /\ n.recipient_user = borrows[b].user
        /\ n.related_borrow = Some(b)
        /\ n.notification_type = type
        /\ n.created_at = today

NotificationRow(recipient, related, b, type, priority) ==
    [recipient_user |-> recipient, related_user |-> related,
     related_borrow |-> Some(b), notification_type |-> type,
     priority |-> priority, created_at |-> today]

send_notifications(dry_run) ==
    LET remind == {b \in items_for_reminder : ~AlreadyNotified(b, "return_reminder")}
        alert == {b \in overdue_items : ~AlreadyNotified(b, "overdue_alert")}
    IN  IF dry_run THEN Refuse("send_notifications", "dry_run")
        ELSE /\ borrows' = [b \in DOMAIN borrows |->
                              IF b \in alert THEN [borrows[b] EXCEPT !.status = "overdue"]
                              ELSE borrows[b]]
             /\ notifications' = notifications
                  (+) SetToBag({NotificationRow(borrows[b].user, None, b,
                                        "return_reminder", "medium") : b \in remind})
                  (+) SetToBag({NotificationRow(borrows[b].user, None, b,
                                        "overdue_alert", "urgent") : b \in alert})
                  (+) SetToBag({NotificationRow(adm, Some(borrows[b].user), b,
                                        "overdue_alert", "high") :
                            adm \in active_admins, b \in alert})
             /\ Response("send_notifications", "success")
             /\ UNCHANGED << users, products, loan_history,
                             next_product_id, next_borrow_id, env, inflight >>

(* ------------------------------------------------------- reporting queries *)
\* The reporting queries: get_overdue_items, the overdue count of the
\* reports page, and the is_overdue property of a Borrow.
stored_overdue_items ==
    {b \in DOMAIN borrows : borrows[b].status = "overdue"}

get_overdue_items ==
    {b \in DOMAIN borrows : /\ borrows[b].status = "active"
                            /\ borrows[b].expected_return_date < today}

reports_overdue_items ==
    Cardinality({b \in DOMAIN borrows : /\ borrows[b].status = "active"
                                        /\ borrows[b].expected_return_date < today})

is_overdue(b) ==
    /\ borrows[b].status \in {"active", "approved"}
    /\ borrows[b].expected_return_date < today

(* ------------------------------------------------------------------ clock *)
\* Time passes between requests, here by a loan period at a time, or a loan
\* period and a day: the steps that take a loan made today to its expected
\* return date, and past it.
Tick ==
    /\ today < MaxTicks * LoanDays
    /\ \E days \in {LoanDays, LoanDays + 1} : today' = today + days
    /\ Response("tick", "none")
    /\ UNCHANGED << db, stocked, next_user_id, inflight >>

\* One day passes.
Midnight ==
    /\ today < MaxDays
    /\ today' = today + 1
    /\ Response("midnight", "none")
    /\ UNCHANGED << db, stocked, next_user_id, inflight >>

QtyInputs == -1..MaxQty

Selections == (SUBSET (DOMAIN borrows)) \ {{}}

Catalog ==
    \/ \E a \in UserIds, q \in QtyInputs, s \in PRODUCT_STATUS : add_item(a, q, s)
    \/ \E a \in UserIds, p \in ProductIds, q \in QtyInputs, s \in PRODUCT_STATUS :
            update_product(a, p, q, s)
    \/ \E a \in UserIds, p \in ProductIds : delete_product(a, p)
    \/ \E a \in UserIds, p \in ProductIds, s \in PRODUCT_STATUS :
            update_product_status_api(a, p, s)

Lifecycle ==
    \/ \E u \in UserIds, p \in ProductIds : product_detail(u, p)
    \/ \E u \in UserIds, p \in ProductIds : borrow_request(u, p)
    \/ \E a \in UserIds, b \in BorrowIds : approve_request(a, b)
    \/ \E a \in UserIds, b \in BorrowIds : reject_request(a, b)
    \/ \E a \in UserIds, b \in BorrowIds, act \in {"approve", "reject"} :
            admin_pending_requests(a, b, act)
    \/ \E u \in UserIds, b \in BorrowIds : return_item(u, b)
    \/ \E a \in UserIds, b \in BorrowIds, act \in {"mark_returned", "mark_active"} :
            admin_manage_returns(a, b, act)
    \/ \E a \in UserIds, qs \in Selections : mark_as_returned(a, qs)
    \/ \E a \in UserIds, qs \in Selections : mark_as_active(a, qs)

Accounts ==
    \/ \E a \in UserIds, u \in UserIds : delete_user(a, u)

\* The interactive core: every request of the catalog, the lifecycle and the
\* accounts, all on one day.
Next == Catalog \/ Lifecycle \/ Accounts

Spec == Init /\ [][Next]_vars

\* The lifecycle over time: loans are made, extended, fall due and come back
\* while the clock advances and the notification job runs.
NextClock ==
    \/ \E a \in UserIds, q \in QtyInputs : add_item(a, q, "available")
    \/ \E u \in UserIds, p \in ProductIds : product_detail(u, p)
    \/ \E a \in UserIds, b \in BorrowIds : approve_request(a, b)
    \/ \E u \in UserIds, b \in BorrowIds : return_item(u, b)
    \/ \E u \in UserIds, b \in BorrowIds : extend_request(u, b)
    \/ \E a \in UserIds, b \in BorrowIds, act \in {"mark_returned", "mark_active"} :
            admin_manage_returns(a, b, act)
    \/ \E dry_run \in BOOLEAN : send_notifications(dry_run)
    \/ Tick

SpecClock == Init /\ [][NextClock]_vars

\* The operations of the borrow lifecycle on products that enter the catalog
\* available: requests, decisions, returns and their undo, the product status
\* update, and the deletion of products and users.
NextCore ==
    \/ \E a \in UserIds, q \in QtyInputs : add_item(a, q, "available")
    \/ \E a \in UserIds, p \in ProductIds : delete_product(a, p)
    \/ \E a \in UserIds, p \in ProductIds, s \in PRODUCT_STATUS :
            update_product_status_api(a, p, s)
    \/ Lifecycle
    \/ Accounts

SpecCore == Init /\ [][NextCore]_vars

\* Round trips on a product in stock: a request, its approval and its return,
\* each through any of its entry points, the next request coming once the
\* last one has been returned.  stocked keeps the Product rows as they stood
\* before the first request.
InitTrip ==
    /\ users = InitialUsers
    /\ \E q \in 1..MaxQty :
          products = [p \in ProductIds |->
                        [status |-> "available", quantity_available |-> q]]
    /\ stocked = products
    /\ inflight = << >>
    /\ borrows = << >>
    /\ loan_history = << >>
    /\ notifications = EmptyBag
    /\ next_product_id = MaxProducts + 1
    /\ next_borrow_id = 1
    /\ next_user_id = NumUsers + 1
    /\ today = 0
    /\ last = [op |-> "init", level |-> "none"]

HasStatus(b, status) == b \in DOMAIN borrows /\ borrows[b].status = status

AllReturned == \A b \in DOMAIN borrows : borrows[b].status = "returned"

NextTrip ==
    \/ \E u \in UserIds, p \in ProductIds :
            AllReturned /\ product_detail(u, p)
    \/ \E u \in UserIds, p \in ProductIds :
            AllReturned /\ borrow_request(u, p)
    \/ \E a \in UserIds, b \in BorrowIds :
            HasStatus(b, "pending") /\ approve_request(a, b)
    \/ \E a \in UserIds, b \in BorrowIds :
            HasStatus(b, "pending") /\ admin_pending_requests(a, b, "approve")
    \/ \E u \in UserIds, b \in BorrowIds :
            HasStatus(b, "active") /\ return_item(u, b)
    \/ \E a \in UserIds, b \in BorrowIds :
            HasStatus(b, "active") /\ admin_manage_returns(a, b, "mark_returned")
    \/ \E a \in UserIds, b \in BorrowIds :
            HasStatus(b, "active") /\ mark_as_returned(a, {b})

SpecTrip == InitTrip /\ [][NextTrip]_vars

\* The batch job day by day: loans on a product in stock are made, approved,
\* returned and reactivated by the admin while the days pass and the job runs,
\* any number of times a day.
NextBatch ==
    \/ \E u \in UserIds, p \in ProductIds : product_detail(u, p)
    \/ \E a \in UserIds, b \in BorrowIds :
            HasStatus(b, "pending") /\ approve_request(a, b)
    \/ \E a \in UserIds, b \in BorrowIds, act \in {"mark_returned", "mark_active"} :
            admin_manage_returns(a, b, act)
    \/ \E dry_run \in BOOLEAN : send_notifications(dry_run)
    \/ Midnight

SpecBatch == InitTrip /\ [][NextBatch]_vars

\* The accounts: registration, the admin's user management and profile edits.
NextAccounts ==
    \/ \E e \in Emails, role \in USER_ROLES, sid \in ShortIds :
            user_register(e, role, sid)
    \/ \E a \in AllUserIds, e \in Emails, role \in USER_ROLES, sid \in ShortIds :
            add_user(a, e, role, sid)
    \/ \E a \in AllUserIds, sid \in ShortIds : activate_user(a, sid)
    \/ \E a \in AllUserIds, sid \in ShortIds : deactivate_user(a, sid)
    \/ \E a \in AllUserIds, sid \in ShortIds : delete_user(a, sid)
    \/ \E a \in AllUserIds, pk \in AllUserIds, act \in {"approve", "reject"} :
            admin_pending_users(a, pk, act)
    \/ \E u \in AllUserIds, e \in Emails : user_profile(u, e)

SpecAccounts == Init /\ [][NextAccounts]_vars

\* The admin-only routes next to the two user routes that feed them: requests
\* are made and returned by users, everything else is the admin's.
NextAdmin ==
    \/ \E a \in UserIds, q \in QtyInputs : add_item(a, q, "available")
    \/ \E a \in UserIds, p \in ProductIds, q \in QtyInputs, s \in PRODUCT_STATUS :
            update_product(a, p, q, s)
    \/ \E a \in UserIds, p \in ProductIds : delete_product(a, p)
    \/ \E u \in UserIds, p \in ProductIds : product_detail(u, p)
    \/ \E u \in UserIds, b \in BorrowIds : return_item(u, b)
    \/ \E a \in UserIds, b \in BorrowIds : approve_request(a, b)
    \/ \E a \in UserIds, b \in BorrowIds : reject_request(a, b)
    \/ \E a \in UserIds, b \in BorrowIds, act \in {"mark_returned", "mark_active"} :
            admin_manage_returns(a, b, act)
    \/ \E a \in UserIds, sid \in ShortIds : activate_user(a, sid)
    \/ \E a \in UserIds, sid \in ShortIds : deactivate_user(a, sid)
    \/ \E a \in UserIds, sid \in ShortIds : delete_user(a, sid)

SpecAdmin == Init /\ [][NextAdmin]_vars

(* ------------------------------------- requests, statement by statement *)
\* No view opens a transaction: every save() and create() commits on its own,
\* so a request is a read followed by one committed write after another, and
\* other requests run in between.  A request keeps its own copies of the rows
\* it read and writes them back whole.
Statements(op) ==
    CASE op = "approve_request" -> << "product.save", "borrow.save" >>
      [] op = "return_item" -> << "product.save", "borrow.save", "LoanHistory.create" >>
      [] op = "admin_manage_returns_mark_active" -> << "borrow.save", "product.save" >>

Started(r, op, a, borrow_id, borrow, product) ==
    /\ r \notin DOMAIN inflight
    /\ inflight' = With(inflight, r,
            [op |-> op, actor |-> a, todo |-> Statements(op),
             borrow_id |-> borrow_id, borrow |-> borrow, product |-> product])
    /\ UNCHANGED << db, env, last >>

\* approve_request up to its first write: the Borrow and its Product are read
\* and changed in memory.
approve_request_read(r, a, request_id) ==
    IF ~is_admin(a) THEN Denied
    ELSE IF request_id \notin DOMAIN borrows THEN NotFound
    ELSE LET borrow == borrows[request_id]
         IN  Started(r, "approve_request", a, request_id,
                     ApprovedBorrowRow(borrow, a),
                     ApproveProductRow(products[borrow.product]))

\* return_item up to its first write.
return_item_read(r, u, borrow_id) ==
    IF ~login_required(u) THEN Denied
    ELSE IF ~OwnBorrow(u, borrow_id) THEN NotFound
    ELSE LET borrow == borrows[borrow_id]
         IN  /\ products[borrow.product].quantity_available < MaxQty
             /\ Len(loan_history) < MaxHistory
             /\ Started(r, "return_item", u, borrow_id,
                        ReturnedBorrowRow(borrow),
                        ReturnProductRow(products[borrow.product]))

\* admin_manage_returns, action=mark_active, up to its first write; the
\* Product is read only after the Borrow has been saved.
mark_active_read(r, a, borrow_id) ==
    IF ~is_admin(a) THEN Denied
    ELSE IF borrow_id \notin DOMAIN borrows
    THEN Refuse("admin_manage_returns_mark_active", "error")
    ELSE LET borrow == borrows[borrow_id]
         IN  IF CanMarkActive(borrow)
             THEN Started(r, "admin_manage_returns_mark_active", a, borrow_id,
                          ReactivatedBorrowRow(borrow), None)
             ELSE Refuse("admin_manage_returns_mark_active", "error")

\* The request has one statement less to run; after the last one it answers.
Advance(r) ==
    LET req == inflight[r]
    IN  IF Len(req.todo) = 1
        THEN /\ inflight' = Without(inflight, {r})
             /\ Response(req.op, "success")
        ELSE /\ inflight' = [inflight EXCEPT ![r].todo = Tail(@)]
             /\ UNCHANGED last

NextStatement(r, statement) ==
    r \in DOMAIN inflight /\ Head(inflight[r].todo) = statement

\* borrow.product.save()
product_save(r) ==
    /\ NextStatement(r, "product.save")
    /\ LET req == inflight[r]
       IN  products' = [products EXCEPT ![req.borrow.product] =
                IF req.op = "admin_manage_returns_mark_active"
                THEN MarkActiveProductRow(@) ELSE req.product]
    /\ Advance(r)
    /\ UNCHANGED << users, borrows, loan_history, notifications,
                    next_product_id, next_borrow_id, env >>

\* borrow.save()
borrow_save(r) ==
    /\ NextStatement(r, "borrow.save")
    /\ borrows' = [borrows EXCEPT ![inflight[r].borrow_id] = inflight[r].borrow]
    /\ Advance(r)
    /\ UNCHANGED << users, products, loan_history, notifications,
                    next_product_id, next_borrow_id, env >>

\* LoanHistory.objects.create(...)
loan_history_create(r) ==
    /\ NextStatement(r, "LoanHistory.create")
    /\ Len(loan_history) < MaxHistory
    /\ loan_history' = Append(loan_history, LoanHistoryRow(inflight[r].borrow))
    /\ Advance(r)
    /\ UNCHANGED << users, products, borrows, notifications,
                    next_product_id, next_borrow_id, env >>

\* The request dies where it is (an exception, a killed worker): what it has
\* committed stays, the rest never happens.
request_fails(r) ==
    /\ r \in DOMAIN inflight
    /\ inflight' = Without(inflight, {r})
    /\ Response(inflight[r].op, "server_error")
    /\ UNCHANGED << db, env >>

\* One pending request on a product in stock, then approvals, returns and
\* undo-returns of that Borrow, each begun from the status it is meant for.
InitRace ==
    /\ users = InitialUsers
    /\ \E q \in 1..MaxQty :
          products = [p \in ProductIds |->
                        [status |-> "available", quantity_available |-> q]]
    /\ stocked = products
    /\ inflight = << >>
    /\ today = 0
    /\ borrows = << NewBorrow(NumUsers, 1) >>
    /\ loan_history = << >>
    /\ notifications = EmptyBag
    /\ next_product_id = MaxProducts + 1
    /\ next_borrow_id = 2
    /\ next_user_id = NumUsers + 1
    /\ last = [op |-> "borrow_request", level |-> "success"]

NextRace ==
    \/ \E r \in RequestIds, a \in UserIds, b \in BorrowIds :
            HasStatus(b, "pending") /\ approve_request_read(r, a, b)
    \/ \E r \in RequestIds, u \in UserIds, b \in BorrowIds :
            HasStatus(b, "active") /\ return_item_read(r, u, b)
    \/ \E r \in RequestIds, a \in UserIds, b \in BorrowIds :
            HasStatus(b, "returned") /\ mark_active_read(r, a, b)
    \/ \E r \in RequestIds : product_save(r)
    \/ \E r \in RequestIds : borrow_save(r)
    \/ \E r \in RequestIds : loan_history_create(r)
    \/ \E r \in RequestIds : request_fails(r)

SpecRace == InitRace /\ [][NextRace]_vars

(* ================================================================ claims *)
ActiveBorrowsOf(p) ==
    {b \in DOMAIN borrows : borrows[b].product = p /\ borrows[b].status = "active"}

\* C1: a Product has status 'borrowed' if and only if at least one Borrow
\* referencing it has status 'active', in every state reached by requests,
\* decisions, returns, undo-returns, product status updates and deletions.
C1_BorrowedIffActive ==
    \A p \in DOMAIN products :
        (products[p].status = "borrowed") <=> (ActiveBorrowsOf(p) # {})

QuantityNonNegative ==
    \A p \in DOMAIN products : products[p].quantity_available >= 0

\* An admin add or edit that submits a negative quantity is answered with an
\* error and leaves the stored products as they were.
NegativeQuantityRejected ==
    /\ last'.op = "add_item" =>
          \A a \in UserIds, s \in PRODUCT_STATUS, q \in {n \in QtyInputs : n < 0} :
              add_item(a, q, s) =>
                  products' = products /\ last'.level = "error"
    /\ last'.op = "update_product" =>
          \A a \in UserIds, p \in ProductIds, s \in PRODUCT_STATUS,
             q \in {n \in QtyInputs : n < 0} :
              update_product(a, p, q, s) =>
                  products' = products /\ last'.level = "error"

\* C2: quantity_available is never negative in any reachable state, and an
\* admin add/edit of a product with a negative quantity is rejected and
\* leaves the stored product unchanged.
C2_QuantityNeverNegative ==
    []QuantityNonNegative /\ [][NegativeQuantityRejected]_vars

\* C2 happens: a negative edit has just been refused on a product whose last
\* unit is out on an active loan.
C2_Witness ==
    /\ last = [op |-> "update_product", level |-> "error"]
    /\ \E p \in DOMAIN products :
          /\ products[p].quantity_available = 0
          /\ products[p].status = "borrowed"
          /\ ActiveBorrowsOf(p) # {}

OpenBorrowsOf(u, p) ==
    {b \in DOMAIN borrows : /\ borrows[b].user = u
                            /\ borrows[b].product = p
                            /\ borrows[b].status \in {"pending", "approved", "active"}}

\* C3: for every (user, product) pair there is at most one Borrow whose
\* status is pending, approved or active.
C3_OneOpenBorrowPerPair ==
    \A u \in UserIds, p \in ProductIds : Cardinality(OpenBorrowsOf(u, p)) <= 1

\* C4: once every request made has been approved and returned, each
\* Product's quantity_available and status equal their values before the
\* request, and exactly one LoanHistory record per round trip has been added.
C4_RoundTripRestores ==
    (borrows # << >> /\ AllReturned) =>
        /\ products = stocked
        /\ Len(loan_history) = Cardinality(DOMAIN borrows)
APPROVE_OPS == {"approve_request", "admin_pending_requests_approve"}

DECIDE_OPS == APPROVE_OPS \cup {"reject_request", "admin_pending_requests_reject"}

RETURN_OPS == {"return_item", "admin_manage_returns_mark_returned", "mark_as_returned"}

\* C5: approving a pending Borrow through either entry point sets the Borrow
\* active with added_by the acting admin, sets the Product borrowed and takes
\* exactly one unit off quantity_available (which stays 0 when it was 0).
C5_ApproveEffect ==
    [][last'.op \in APPROVE_OPS =>
        \A a \in UserIds, b \in BorrowIds :
            (/\ HasStatus(b, "pending")
             /\ approve_request(a, b) \/ admin_pending_requests(a, b, "approve")) =>
                LET p == borrows[b].product
                    q == products[p].quantity_available
                IN  /\ borrows'[b].status = "active"
                    /\ borrows'[b].added_by = Some(a)
                    /\ products'[p].status = "borrowed"
                    /\ products'[p].quantity_available = IF q > 0 THEN q - 1 ELSE 0
    ]_vars

\* C6: a create-request on a Product that is not 'available', or by a user
\* who already has a pending, approved or active Borrow for it, is answered
\* with an error and creates no Borrow; a successful create-request creates
\* exactly one Borrow, with status pending.
C6_CreateRequestChecked ==
    [][last'.op \in {"product_detail", "borrow_request"} =>
        \A u \in UserIds, p \in ProductIds :
            (product_detail(u, p) \/ borrow_request(u, p)) =>
                IF products[p].status # "available" \/ OpenBorrowsOf(u, p) # {}
                THEN last'.level = "error" /\ borrows' = borrows
                ELSE /\ last'.level = "success"
                     /\ \E b \in BorrowIds \ DOMAIN borrows :
                          /\ DOMAIN borrows' = DOMAIN borrows \cup {b}
                          /\ borrows'[b].status = "pending"
                          /\ borrows'[b].user = u
                          /\ borrows'[b].product = p
                          /\ \A o \in DOMAIN borrows : borrows'[o] = borrows[o]
    ]_vars

\* C6 happens: a request has just been refused on a product that is borrowed
\* because the only request on it, another user's, was approved.
C6_Witness ==
    /\ last = [op |-> "borrow_request", level |-> "error"]
    /\ \E p \in DOMAIN products, b \in DOMAIN borrows :
          /\ products[p].status = "borrowed"
          /\ DOMAIN borrows = {b}
          /\ borrows[b].product = p
          /\ borrows[b].status = "active"

\* C7: an approve or reject decision on a Borrow that is not pending is
\* answered with an error and changes neither the Borrow nor any Product.
C7_DecisionOnlyOnPending ==
    [][last'.op \in DECIDE_OPS =>
        \A a \in UserIds, b \in DOMAIN borrows :
            (/\ borrows[b].status # "pending"
             /\ \/ approve_request(a, b)
                \/ reject_request(a, b)
                \/ admin_pending_requests(a, b, "approve")
                \/ admin_pending_requests(a, b, "reject")) =>
                /\ last'.level = "error"
                /\ borrows'[b] = borrows[b]
                /\ products' = products
    ]_vars

\* C8: a return, by the borrower through return_item or by an admin through
\* mark_returned, on a Borrow that is pending, rejected or already returned is
\* refused and changes no Borrow, no Product and no LoanHistory record.
C8_ReturnOnlyOnActive ==
    [][last'.op \in RETURN_OPS =>
        \A u \in UserIds, b \in DOMAIN borrows :
            (/\ borrows[b].status \in {"pending", "rejected", "returned"}
             /\ \/ return_item(u, b)
                \/ admin_manage_returns(u, b, "mark_returned")
                \/ mark_as_returned(u, {b})) =>
                /\ last'.level \in {"error", "warning"}
                /\ UNCHANGED << borrows, products, loan_history >>
    ]_vars

\* C9: approving a pending Borrow whose Product has quantity_available = 0 is
\* refused: the Borrow stays pending and the Product is unchanged.
C9_ApproveNeedsStock ==
    [][last'.op \in APPROVE_OPS =>
        \A a \in UserIds, b \in BorrowIds :
            (/\ HasStatus(b, "pending")
             /\ products[borrows[b].product].quantity_available = 0
             /\ approve_request(a, b) \/ admin_pending_requests(a, b, "approve")) =>
                /\ last'.level = "error"
                /\ borrows'[b].status = "pending"
                /\ products' = products
    ]_vars

\* C10: every successful return of an active Borrow, by the borrower or by an
\* admin override, sets the Borrow returned with actual_return_date today,
\* sets the Product available, adds exactly one unit to quantity_available
\* and appends exactly one LoanHistory record.
C10_ReturnEffect ==
    [][(last'.op \in RETURN_OPS /\ last'.level = "success") =>
        \A u \in UserIds, b \in BorrowIds :
            (/\ HasStatus(b, "active")
             /\ \/ return_item(u, b)
                \/ admin_manage_returns(u, b, "mark_returned")
                \/ mark_as_returned(u, {b})) =>
                LET p == borrows[b].product
                IN  /\ borrows'[b].status = "returned"
                    /\ borrows'[b].actual_return_date = Some(today)
                    /\ products'[p].status = "available"
                    /\ products'[p].quantity_available =
                           products[p].quantity_available + 1
                    /\ Len(loan_history') = Len(loan_history) + 1
    ]_vars

\* C11: approve, return and undo-return change a Borrow together with its
\* Product: in no state, between requests or after a failed one, is the
\* Borrow active while its Product is not borrowed, or the Product borrowed
\* while the Borrow is not active.
C11_BorrowAndProductTogether ==
    \A b \in DOMAIN borrows :
        (borrows[b].status = "active") <=>
            (products[borrows[b].product].status = "borrowed")

\* C12: when approvals of the same pending Borrow run at the same time, the
\* Product gives up at most one unit for that Borrow.
C12_ApprovedOnce ==
    \A p \in DOMAIN products :
        products[p].quantity_available >= stocked[p].quantity_available - 1

LateActive ==
    {b \in DOMAIN borrows : /\ borrows[b].status = "active"
                            /\ today > borrows[b].expected_return_date}

\* C13: an active Borrow whose expected_return_date is before today is
\* classified overdue by get_overdue_items, by the reports count and by
\* is_overdue, whatever was or was not called on it, and an active Borrow
\* whose expected_return_date is today or later is not.
C13_OverdueByQuery ==
    /\ reports_overdue_items = Cardinality(LateActive)
    /\ \A b \in DOMAIN borrows :
          borrows[b].status = "active" =>
              /\ (b \in get_overdue_items) <=> (b \in LateActive)
              /\ is_overdue(b) <=> (b \in LateActive)

\* C13 happens: the clock has just passed the expected return date of an
\* active Borrow, which the query lists though nothing was called on it.
C13_Witness ==
    /\ last.op = "tick"
    /\ \E b \in DOMAIN borrows :
          /\ borrows[b].status = "active"
          /\ borrows[b].expected_return_date < today
          /\ b \in get_overdue_items
          /\ is_overdue(b)
(* --------------------------- account requests, statement by statement *)
\* The UNIQUE constraints of User.email and User.user_id, as the INSERT or
\* UPDATE of row under primary key pk meets them.
no_unique_constraint(row, pk) == FALSE

unique_violation(row, pk) ==
    \E o \in DOMAIN users \ {pk} :
        users[o].email = row.email \/ users[o].user_id = row.user_id

\* The request holds a User instance in memory, with the statements left to run.
StartedUser(r, op, a, pk, row, todo) ==
    /\ r \notin DOMAIN inflight
    /\ inflight' = With(inflight, r,
            [op |-> op, actor |-> a, todo |-> todo, pk |-> pk, user |-> row])
    /\ UNCHANGED << db, env, last >>

\* user_register up to form.save(commit=False): the form was valid.
user_register_valid(r, email, role) ==
    IF email_in_use(email) THEN Refuse("user_register", "error")
    ELSE StartedUser(r, "user_register", None, None,
                     UserRow(role, FALSE, email, None),
                     << "generate_unique_user_id", "user.save", "notify" >>)

\* add_user up to form.save(commit=False).
add_user_valid(r, a, email, role) ==
    IF ~is_admin(a) THEN Denied
    ELSE IF email_in_use(email) THEN Refuse("add_user", "error")
    ELSE StartedUser(r, "add_user", Some(a), None,
                     UserRow(role, TRUE, email, None),
                     << "generate_unique_user_id", "user.save" >>)

\* user_profile POST up to form.is_valid(): the form holds the user's row with
\* the new email.
user_profile_valid(r, u, email) ==
    IF ~login_required(u) THEN Denied
    ELSE IF \E o \in DOMAIN users : o # u /\ users[o].email = email
    THEN Refuse("user_profile", "error")
    ELSE StartedUser(r, "user_profile", Some(u), Some(u),
                     [users[u] EXCEPT !.email = email], << "user.save" >>)

\* User.save: the short id is drawn until no row holds it.
generate_unique_user_id(r) ==
    /\ NextStatement(r, "generate_unique_user_id")
    /\ \E user_id \in ShortIds :
          /\ ~user_id_in_use(user_id)
          /\ inflight' = [inflight EXCEPT ![r].todo = Tail(@),
                                          ![r].user.user_id = user_id]
    /\ UNCHANGED << db, env, last >>

\* An exception no view catches: the request ends with a server error.
IntegrityError(r) ==
    /\ inflight' = Without(inflight, {r})
    /\ Response(inflight[r].op, "server_error")
    /\ UNCHANGED << db, env >>

\* super().save(): INSERT for a new instance, UPDATE for a loaded one.
user_save(r) ==
    /\ NextStatement(r, "user.save")
    /\ LET req == inflight[r]
           pk == IF req.pk = None THEN next_user_id ELSE req.pk[1]
       IN  IF unique_violation(req.user, pk) THEN IntegrityError(r)
           ELSE /\ req.pk = None => next_user_id <= MaxUsers
                /\ users' = With(users, pk, req.user)
                /\ next_user_id' = IF req.pk = None THEN next_user_id + 1
                                   ELSE next_user_id
                /\ IF Len(req.todo) = 1
                   THEN /\ inflight' = Without(inflight, {r})
                        /\ Response(req.op, "success")
                   ELSE /\ inflight' = [inflight EXCEPT ![r].todo = Tail(@),
                                                        ![r].pk = Some(pk)]
                        /\ UNCHANGED last
                /\ UNCHANGED << products, borrows, loan_history, notifications,
                                next_product_id, next_borrow_id, today, stocked >>

\* user_register after the save: one Notification per active admin.
notify_admins(r) ==
    /\ NextStatement(r, "notify")
    /\ notifications' = notifications (+) SetToBag(
            {RegistrationNotificationRow(admin, inflight[r].pk[1]) :
                admin \in active_admins})
    /\ Advance(r)
    /\ UNCHANGED << users, products, borrows, loan_history,
                    next_product_id, next_borrow_id, env >>

\* The site after create_admin: the admin is the only account.
InitSignup ==
    /\ users = [u \in {1} |-> InitialUsers[u]]
    /\ products = << >>
    /\ stocked = << >>
    /\ borrows = << >>
    /\ loan_history = << >>
    /\ notifications = EmptyBag
    /\ next_product_id = 1
    /\ next_borrow_id = 1
    /\ next_user_id = 2
    /\ today = 0
    /\ inflight = << >>
    /\ last = [op |-> "init", level |-> "none"]

NextSignup ==
    \/ \E r \in RequestIds, e \in Emails : user_register_valid(r, e, "regular_user")
    \/ \E r \in RequestIds, a \in AllUserIds, e \in Emails :
            add_user_valid(r, a, e, "regular_user")
    \/ \E r \in RequestIds, u \in AllUserIds, e \in Emails :
            user_profile_valid(r, u, e)
    \/ \E r \in RequestIds : generate_unique_user_id(r)
    \/ \E r \in RequestIds : user_save(r)
    \/ \E r \in RequestIds : notify_admins(r)

SpecSignup == InitSignup /\ [][NextSignup]_vars

(* ---------------------------------------------------------------- accounts *)
\* An admin account that may act: the role is admin and the account is active.
ActingAdmins == {u \in DOMAIN users : users[u].role = "admin" /\ users[u].is_active}

\* C14: when an admin asks to deactivate their own account the request is
\* answered with an error and no User row changes (the admin stays active);
\* when the target is another user, that user's is_active is false afterwards.
C14_NoSelfDeactivate ==
    [][last'.op = "deactivate_user" =>
        \A a \in ActingAdmins, sid \in ShortIds :
            deactivate_user(a, sid) =>
                \A t \in UsersWithShortId(sid) :
                    IF t = a
                    THEN last'.level = "error" /\ users' = users /\ users'[a].is_active
                    ELSE last'.level = "success" /\ ~users'[t].is_active]_vars

\* User 2 has been deactivated by the admin, whose attempt on their own
\* account has then been refused.
C14_Witness ==
    /\ last = [op |-> "deactivate_user", level |-> "error"]
    /\ 2 \in DOMAIN users /\ ~users[2].is_active
    /\ 1 \in DOMAIN users /\ users[1].is_active

\* C15: no admin action deletes the account of the admin who performs it: after
\* a delete-user or a pending-users reject step by admin a, a still has a row.
C15_ActingAdminSurvives ==
    [][last'.op \in {"delete_user", "admin_pending_users_reject"} =>
        \A a \in ActingAdmins :
            (\/ \E sid \in ShortIds : delete_user(a, sid)
             \/ \E pk \in AllUserIds : admin_pending_users(a, pk, "reject"))
            => a \in DOMAIN users']_vars

\* C16: a successful registration leaves the new User inactive, and an inactive
\* User becomes active only in a step that is an admin's activate_user or an
\* admin's approve on the pending-users page.
C16_InactiveUntilAdminActivates ==
    [][/\ (last'.op = "user_register" /\ last'.level = "success") =>
            /\ DOMAIN users' = DOMAIN users \cup {next_user_id}
            /\ ~users'[next_user_id].is_active
       /\ \A u \in DOMAIN users \cap DOMAIN users' :
            (~users[u].is_active /\ users'[u].is_active) =>
                /\ last'.op \in {"activate_user", "admin_pending_users_approve"}
                /\ \E a \in ActingAdmins :
                      \/ activate_user(a, users[u].user_id)
                      \/ admin_pending_users(a, u, "approve")]_vars

\* User 3 has just registered and is inactive.
C16_Witness ==
    /\ last = [op |-> "user_register", level |-> "success"]
    /\ 3 \in DOMAIN users /\ ~users[3].is_active

(* ----------------------------------------------------------- notifications *)
\* C17: every successful approve, reject or extend of a Borrow adds at least
\* one Notification whose recipient is that Borrow's user.
C17_DecisionNotifiesBorrower ==
    [][(/\ last'.op \in {"approve_request", "reject_request", "extend_request",
                         "admin_pending_requests_approve",
                         "admin_pending_requests_reject"}
        /\ last'.level = "success") =>
            \E n \in DOMAIN notifications' :
                /\ CopiesIn(n, notifications') > CopiesIn(n, notifications)
                /\ \E b \in DOMAIN borrows : n.recipient_user = borrows[b].user]_vars

(* ------------------------------------------------------------- retention *)
\* C18: a Borrow row, once created, is in the table after every later step,
\* the deletion of its user or of its product included.
C18_BorrowNeverDeleted ==
    [][\A b \in DOMAIN borrows : b \in DOMAIN borrows']_vars

\* C19: no two Users hold the same email or the same user_id, whatever the
\* interleaving of registrations, add-user requests and profile edits; and a
\* step that creates a User gives it an email no User held before, so that a
\* registration with an email in use creates nothing.
UsersUnique ==
    \A u, v \in DOMAIN users :
        u # v => users[u].email # users[v].email /\ users[u].user_id # users[v].user_id

C19_EmailAndUserIdUnique ==
    /\ []UsersUnique
    /\ [][\A u \in DOMAIN users' \ DOMAIN users :
            \A v \in DOMAIN users : users[v].email # users'[u].email]_vars

\* Two registrations passed validation with the same email; the first one
\* was saved and the second one ended on the constraint.
C19_Witness ==
    /\ last = [op |-> "user_register", level |-> "server_error"]
    /\ Cardinality(DOMAIN users) >= 2

(* ------------------------------------------------------------ permissions *)
\* The admin-only transitions, as requests of user a.
AdminOnlyRequestBy(a) ==
    \/ \E b \in BorrowIds : approve_request(a, b) \/ reject_request(a, b)
    \/ \E b \in BorrowIds, act \in {"mark_returned", "mark_active"} :
            admin_manage_returns(a, b, act)
    \/ \E sid \in ShortIds :
            activate_user(a, sid) \/ deactivate_user(a, sid) \/ delete_user(a, sid)
    \/ \E q \in QtyInputs, st \in PRODUCT_STATUS : add_item(a, q, st)
    \/ \E p \in ProductIds, q \in QtyInputs, st \in PRODUCT_STATUS :
            update_product(a, p, q, st)
    \/ \E p \in ProductIds : delete_product(a, p)

\* C20: an admin-only transition requested by a user whose role is not admin
\* is answered with the redirect to the login page and leaves the Users,
\* Products, Borrows and LoanHistory tables as they were.
C20_NonAdminRejected ==
    \A a \in DOMAIN users :
        users[a].role # "admin" =>
            ~ENABLED (/\ AdminOnlyRequestBy(a)
                      /\ ~(/\ last'.op = "login_redirect"
                           /\ UNCHANGED << users, products, borrows, loan_history >>))

\* User 2, active and not an admin, has been turned away while a request was
\* waiting for a decision.
C20_Witness ==
    /\ last = [op |-> "login_redirect", level |-> "none"]
    /\ 2 \in DOMAIN users /\ users[2].is_active /\ users[2].role # "admin"
    /\ \E b \in DOMAIN borrows : borrows[b].status = "pending"

(* ---------------------------------------------------------------- reject *)
REJECT_OPS == {"reject_request", "admin_pending_requests_reject"}

\* C21: rejecting a pending Borrow, through either entry point, sets its status
\* to rejected and its added_by to the acting admin, and leaves every Product
\* row (status and quantity_available) as it was.
C21_RejectEffect ==
    [][last'.op \in REJECT_OPS =>
        \A a \in UserIds, b \in BorrowIds :
            (/\ HasStatus(b, "pending")
             /\ reject_request(a, b) \/ admin_pending_requests(a, b, "reject")) =>
                /\ borrows'[b].status = "rejected"
                /\ borrows'[b].added_by = Some(a)
                /\ products' = products
    ]_vars

\* A request has been rejected by admin 1 and its Product is still available.
C21_Witness ==
    /\ last.op \in REJECT_OPS /\ last.level = "success"
    /\ \E b \in DOMAIN borrows :
          /\ borrows[b].status = "rejected"
          /\ borrows[b].added_by = Some(1)
          /\ borrows[b].product \in DOMAIN products
          /\ products[borrows[b].product].status = "available"

\* C22: rejected is terminal: a Borrow whose status is rejected still has
\* status rejected after every step that keeps the row.
C22_RejectedIsTerminal ==
    [][\A b \in DOMAIN borrows \cap DOMAIN borrows' :
            borrows[b].status = "rejected" => borrows'[b].status = "rejected"]_vars

(* ---------------------------------------------------------------- extend *)
\* C23: an extend-request by the borrower on an active Borrow moves its
\* expected_return_date forward by exactly 7 days and changes nothing else of
\* the Borrow and no Product; on a Borrow that is not active it is answered
\* with an error and changes no Borrow and no Product.
C23_ExtendEffect ==
    [][last'.op = "extend_request" =>
        \A u \in UserIds, b \in DOMAIN borrows :
            (borrows[b].user = u /\ extend_request(u, b)) =>
                IF borrows[b].status = "active"
                THEN /\ last'.level = "success"
                     /\ borrows' = [borrows EXCEPT
                            ![b].expected_return_date = borrows[b].expected_return_date + 7]
                     /\ products' = products
                ELSE /\ last'.level = "error"
                     /\ UNCHANGED << borrows, products >>
    ]_vars

\* An active loan has just been extended: it is due more than a week from
\* today, which no loan is when it is created.
C23_Witness ==
    /\ last = [op |-> "extend_request", level |-> "success"]
    /\ \E b \in DOMAIN borrows :
          /\ borrows[b].status = "active"
          /\ borrows[b].expected_return_date > today + 7

(* ------------------------------------------------------------ undo-return *)
UNDO_OPS == {"admin_manage_returns_mark_active", "mark_as_active"}

\* C24: the admin's undo-return on a returned Borrow sets the Borrow active,
\* clears actual_return_date, sets the Product borrowed and takes one unit off
\* quantity_available; on a Borrow that is not returned it changes no Borrow
\* and no Product.
C24_UndoReturnEffect ==
    [][last'.op \in UNDO_OPS =>
        \A a \in UserIds, b \in DOMAIN borrows :
            (\/ admin_manage_returns(a, b, "mark_active")
             \/ mark_as_active(a, {b})) =>
                LET p == borrows[b].product
                IN  IF borrows[b].status = "returned"
                    THEN /\ borrows'[b].status = "active"
                         /\ borrows'[b].actual_return_date = None
                         /\ products'[p].status = "borrowed"
                         /\ products'[p].quantity_available =
                                products[p].quantity_available - 1
                    ELSE UNCHANGED << borrows, products >>
    ]_vars

\* C25: a Borrow has an actual_return_date exactly when its status is
\* returned; every other Borrow, one returned and approved again included,
\* has none.
C25_ReturnDateIffReturned ==
    \A b \in DOMAIN borrows :
        (borrows[b].actual_return_date # None) <=> (borrows[b].status = "returned")

(* ---------------------------------------------------------------- overdue *)
\* C26: every Borrow whose stored status is overdue is classified overdue by
\* the computed predicate too: Borrow.is_overdue holds for it and
\* get_overdue_items lists it.
C26_StoredOverdueIsComputedOverdue ==
    \A b \in DOMAIN borrows :
        borrows[b].status = "overdue" => (is_overdue(b) /\ b \in get_overdue_items)

(* -------------------------------------------------------------- batch job *)
BATCH_TYPES == {"return_reminder", "overdue_alert"}

NotificationDays == {n.created_at : n \in DOMAIN notifications}

\* The Notifications of one type about Borrow b that were created on day d for
\* b's user.
SentToBorrower(b, type, d) ==
    {n \in DOMAIN notifications :
        /\ n.recipient_user = borrows[b].user
        /\ n.related_borrow = Some(b)
        /\ n.notification_type = type
        /\ n.created_at = d}

HowMany(rows) == BagCardinality([n \in rows |-> notifications[n]])

\* C27 as stated: for each Borrow and each day there is at most one
\* return_reminder and at most one overdue_alert addressed to the borrower.
C27_OnePerBorrowAndDay ==
    \A b \in DOMAIN borrows, type \in BATCH_TYPES, d \in NotificationDays :
        HowMany(SentToBorrower(b, type, d)) <= 1

\* C27, amended: for each Borrow and each day there is at most one
\* return_reminder and one overdue_alert sent to the borrower as borrower
\* (related_user empty), every Notification about a Borrow exists once, and a
\* run of the job on a day on which the borrower has already got a notice of
\* a type about a Borrow adds no Notification of that type about that Borrow.
C27_OncePerDay ==
    /\ [](\A b \in DOMAIN borrows, type \in BATCH_TYPES, d \in NotificationDays :
            HowMany({n \in SentToBorrower(b, type, d) : n.related_user = None}) <= 1)
    /\ [](\A n \in DOMAIN notifications :
            n.related_borrow # None => CopiesIn(n, notifications) = 1)
    /\ [][last'.op = "send_notifications" =>
            \A b \in DOMAIN borrows, type \in BATCH_TYPES :
                SentToBorrower(b, type, today) # {} =>
                    \A n \in DOMAIN notifications' :
                        (n.related_borrow = Some(b) /\ n.notification_type = type) =>
                            CopiesIn(n, notifications') = CopiesIn(n, notifications)]_vars

\* The job has run today and reminded the borrower of a loan that is still
\* active and due tomorrow: the loan a second run today meets again.
C27_Witness ==
    /\ last = [op |-> "send_notifications", level |-> "success"]
    /\ \E b \in DOMAIN borrows :
          /\ borrows[b].status = "active"
          /\ borrows[b].expected_return_date = today + 1
          /\ SentToBorrower(b, "return_reminder", today) # {}

(* ------------------------------------------------------------------ stock *)
OutstandingBorrowsOf(p) ==
    {b \in DOMAIN borrows : /\ borrows[b].product = p
                            /\ borrows[b].status \in {"active", "overdue"}}

\* C28: for every Product, quantity_available plus the number of its
\* outstanding Borrows (active or overdue) equals the quantity the Product
\* had when it entered the catalog, as long as no admin edits the Product.
C28_StockConserved ==
    \A p \in DOMAIN products :
        products[p].quantity_available + Cardinality(OutstandingBorrowsOf(p))
            = stocked[p].quantity_available

(* -------------------------------------------------------------- ownership *)
\* C29: return_item and extend_request by a logged-in user on a Borrow of
\* another user can only end as not found, with every Borrow, Product and
\* LoanHistory row unchanged.
C29_OwnLoansOnly ==
    \A u \in DOMAIN users, b \in DOMAIN borrows :
        (users[u].is_active /\ borrows[b].user # u) =>
            ~ENABLED (/\ return_item(u, b) \/ extend_request(u, b)
                      /\ ~(/\ last'.op = "not_found"
                           /\ UNCHANGED << borrows, products, loan_history >>))

\* Every product and every Borrow id exists, one loan is active, and the last
\* request ended as not found: a return or an extension asked for by a user
\* who is not the borrower.
C29_Witness ==
    /\ last = [op |-> "not_found", level |-> "none"]
    /\ DOMAIN products = ProductIds
    /\ DOMAIN borrows = BorrowIds
    /\ \E b \in DOMAIN borrows : borrows[b].status = "active"

(* ------------------------------------------------------------ out of service *)
OUT_OF_SERVICE == {"maintenance", "damaged"}

\* C30: a Product in status maintenance or damaged keeps that status under
\* every approve, return, mark-returned and undo-return step.
C30_OutOfServiceKept ==
    [][last'.op \in APPROVE_OPS \cup RETURN_OPS \cup UNDO_OPS =>
        \A p \in DOMAIN products \cap DOMAIN products' :
            products[p].status \in OUT_OF_SERVICE =>
                products'[p].status = products[p].status]_vars

====
